---- MODULE Spec2Model ----
(***************************************************************************)
(* Loan lifecycle of the library application: the views issue_create,      *)
(* issue_return and issue_renew of library/views.py acting on the Book,    *)
(* Issue and Fine rows of library/models.py.                               *)
(*                                                                         *)
(* The views run in autocommit mode (no transaction.atomic, no             *)
(* select_for_update, no F() expression anywhere in the sources), so each  *)
(* ORM statement of a view is one atomic step and the steps of requests    *)
(* served in parallel interleave.  Model.save() is called without          *)
(* update_fields: it writes the whole in-memory row back.                  *)
(*                                                                         *)
(* Spec     : a single worker serves the requests one at a time.           *)
(* SpecConc : requests of different workers interleave statement by        *)
(*            statement.                                                   *)
(***************************************************************************)
EXTENDS Integers, Sequences, FiniteSets, TLC

\* ------------------------------------------------------------------ bounds
MaxIssues == 2      \* Issue rows ever created
MaxDay    == 1      \* days the clock advances past day 0
MaxCopies == 2      \* largest total_quantity a book is created with
MaxRequests == 3    \* requests of a parallel workload (SpecConc)
MaxPayments == 2    \* fine payments ever accepted (SpecFines)

\* -------------------------------------------------------- program constants
DEFAULT_ISSUE_DAYS == 14
MAX_RENEWALS       == 2
RENEWAL_DAYS       == 7
FINE_PER_DAY       == 10

\* ------------------------------------------------------------------ universe
Procs      == {"w1", "w2"}
Books      == {"b1", "b2"}
Users      == {"alice", "bob", "lib"}
Borrowers  == {"alice", "lib"}
DaysChoices == {0, DEFAULT_ISSUE_DAYS}
FineStatuses   == {"PENDING", "PAID", "WAIVED"}

\* the copies each book of the catalogue was added with
total_quantity(b) == IF b = "b1" THEN MaxCopies ELSE 1

\* UserProfile.role of every account
role(u) == IF u = "lib" THEN "LIBRARIAN" ELSE "STUDENT"

Null == <<>>

NoBook  == [total_quantity |-> 0, available_quantity |-> 0]
NoIssue == [book |-> "none", user |-> "none", issue_date |-> 0, due_date |-> 0,
            return_date |-> Null, renewal_count |-> 0, max_renewals |-> 0,
            issued_by |-> "none", returned_to |-> Null]
NewBooks       == {"b3"}               \* ids of the books book_add creates
QuantityPosts  == {Null, <<-1>>, <<0>>, <<MaxCopies>>}  \* POST total_quantity
PaymentPosts   == {Null, <<"CARD">>}    \* POST without / with payment_method
NoFine  == [issue |-> 0, amount |-> 0, status |-> "none",
            payment_date |-> Null, payment_method |-> ""]
NoReq   == [pc |-> "idle", op |-> "none", actor |-> "none",
            book_id |-> "none", user_id |-> "none", days |-> 0, issue_id |-> 0,
            fine_id |-> 0, payment_method |-> "", total_quantity |-> 0,
            book |-> NoBook, issue |-> NoIssue, fine |-> NoFine,
            result |-> "none"]

VARIABLES
    books,          \* Book rows: book id -> [total_quantity, available_quantity]
    issues,         \* Issue rows, the row with id i at index i
    fines,          \* Fine rows, the row with id i at index i
    audit,          \* AuditLog rows, counted per action
    notifications,  \* Notification rows, counted
    today,          \* the calendar date the clock shows
    quota,          \* requests the parallel workload may still start
    req             \* per worker: the request it is serving (view locals)

vars == <<books, issues, fines, audit, notifications, today, quota, req>>
db   == <<books, issues, fines, audit, notifications>>

AuditActions == {"CREATE", "ISSUE", "RETURN", "RENEW", "PAYMENT"}

\* ------------------------------------------------------------ models.py
\* is_overdue without its return_date guard
is_overdue_unguarded(issue, now) == now > issue.due_date

\* Issue.is_overdue, evaluated when the clock shows `now`
is_overdue(issue, now) ==
    IF issue.return_date # Null THEN FALSE
    ELSE now > issue.due_date

\* Issue.days_overdue
days_overdue(issue, now) ==
    IF ~is_overdue(issue, now) THEN 0
    ELSE now - issue.due_date

\* Issue.calculate_fine
calculate_fine(issue, now) ==
    IF is_overdue(issue, now) THEN days_overdue(issue, now) * FINE_PER_DAY
    ELSE 0

\* ------------------------------------------------------------- utils.py
role_required(allowed_roles, user) == role(user) \in allowed_roles

librarian_required(user) == role_required({"ADMIN", "LIBRARIAN"}, user)

\* log_audit: one AuditLog row
log_audit(action) == audit' = [audit EXCEPT ![action] = @ + 1]

\* create_notification: one Notification row
create_notification == notifications' = notifications + 1

\* ------------------------------------------------------------- helpers
Idle(p)   == req[p].pc = "idle"

\* the view returns its response; result is the message the user is shown
Respond(p, r, result) ==
    req' = [req EXCEPT ![p] = [NoReq EXCEPT !.pc = "respond", !.op = r.op,
                                            !.result = result]]

Goto(p, r, pc) == req' = [req EXCEPT ![p] = [r EXCEPT !.pc = pc]]

\* Issue rows that requests in flight are still going to insert
PendingInserts == Cardinality({q \in Procs : req[q].pc = "issue_insert"})

\* ----------------------------------------------------------- forms.py
\* BookForm.clean_total_quantity on cleaned_data (Null: no total_quantity):
\* `if quantity and quantity < 1` raises ValidationError, else the value is
\* returned; a quantity of 0 is falsy
clean_total_quantity(cleaned) ==
    IF cleaned # Null /\ cleaned[1] # 0 /\ cleaned[1] < 1
    THEN [valid |-> FALSE, quantity |-> Null]
    ELSE [valid |-> TRUE, quantity |-> cleaned]

\* ---------------------------------------------------- views.py: book_add
\* line 194: request.POST.get('total_quantity', 1), made an integer by the
\* IntegerField when the row is written
post_total_quantity(post) == IF post = Null THEN 1 ELSE post[1]

\* @librarian_required, then lines 187-204: POST data, Book.objects.create
book_add_create(p, actor, book_id, post) ==
    /\ Idle(p)
    /\ book_id \notin DOMAIN books
    /\ LET quantity == post_total_quantity(post)
           r == [NoReq EXCEPT !.op = "book_add", !.actor = actor,
                              !.book_id = book_id,
                              !.total_quantity = quantity]
           book == [total_quantity |-> quantity,
                    available_quantity |-> quantity]
       IN  IF ~librarian_required(actor)
           THEN Respond(p, r, "forbidden") /\ UNCHANGED books
           ELSE /\ books' = [b \in DOMAIN books \cup {book_id} |->
                                IF b = book_id THEN book ELSE books[b]]
                /\ Goto(p, [r EXCEPT !.book = book], "book_audit")
    /\ UNCHANGED <<issues, fines, audit, notifications, today>>

\* lines 206-208: log_audit, success message, redirect
book_add_audit(p) ==
    /\ req[p].pc = "book_audit"
    /\ log_audit("CREATE")
    /\ Respond(p, req[p], "ok")
    /\ UNCHANGED <<books, issues, fines, notifications, today, quota>>

\* ------------------------------------------------ views.py: issue_create
\* the availability test off by one
not_available_below_zero(book) == book.available_quantity < 0

\* line 249: the availability test on the Book instance read at line 246
not_available(book) == book.available_quantity <= 0

\* the loan period ignored
new_issue_fixed_period(book_id, user_id, days, actor, now) ==
    [book |-> book_id, user |-> user_id, issue_date |-> now,
     due_date |-> now + DEFAULT_ISSUE_DAYS, return_date |-> Null,
     renewal_count |-> 0, max_renewals |-> MAX_RENEWALS, issued_by |-> actor,
     returned_to |-> Null]

\* lines 252-258: the Issue row the view creates
new_issue(book_id, user_id, days, actor, now) ==
    [book |-> book_id, user |-> user_id, issue_date |-> now,
     due_date |-> now + days, return_date |-> Null, renewal_count |-> 0,
     max_renewals |-> MAX_RENEWALS, issued_by |-> actor, returned_to |-> Null]

\* @librarian_required, then lines 241-250: read the Book, test availability
issue_create_get(p, actor, book_id, user_id, days) ==
    /\ Idle(p)
    /\ LET r == [NoReq EXCEPT !.op = "issue_create", !.actor = actor,
                              !.book_id = book_id, !.user_id = user_id,
                              !.days = days]
           book == books[book_id]
       IN  IF ~librarian_required(actor) THEN Respond(p, r, "forbidden")
           ELSE IF not_available(book) THEN Respond(p, r, "unavailable")
           ELSE /\ Len(issues) + PendingInserts < MaxIssues
                /\ Goto(p, [r EXCEPT !.book = book], "issue_insert")
    /\ UNCHANGED <<db, today>>

\* lines 252-258: Issue.objects.create
issue_create_insert(p) ==
    /\ req[p].pc = "issue_insert"
    /\ LET r == req[p]
       IN  /\ issues' = Append(issues,
                   new_issue(r.book_id, r.user_id, r.days, r.actor, today))
           /\ Goto(p, [r EXCEPT !.issue_id = Len(issues) + 1], "issue_save_book")
    /\ UNCHANGED <<books, fines, audit, notifications, today, quota>>

\* the decrement made on the instance and never saved
issue_create_save_book_unsaved(p) ==
    /\ req[p].pc = "issue_save_book"
    /\ LET r == req[p]
           book == [r.book EXCEPT !.available_quantity = @ - 1]
       IN  Goto(p, [r EXCEPT !.book = book], "issue_notify")
    /\ UNCHANGED <<db, today, quota>>

\* lines 261-262: book.available_quantity -= 1; book.save()
issue_create_save_book(p) ==
    /\ req[p].pc = "issue_save_book"
    /\ LET r == req[p]
           book == [r.book EXCEPT !.available_quantity = @ - 1]
       IN  /\ books' = [books EXCEPT ![r.book_id] = book]
           /\ Goto(p, [r EXCEPT !.book = book], "issue_notify")
    /\ UNCHANGED <<issues, fines, audit, notifications, today, quota>>

\* lines 265-270: create_notification
issue_create_notify(p) ==
    /\ req[p].pc = "issue_notify"
    /\ create_notification
    /\ Goto(p, req[p], "issue_audit")
    /\ UNCHANGED <<books, issues, fines, audit, today, quota>>

\* lines 272-274: log_audit, success message, redirect
issue_create_audit(p) ==
    /\ req[p].pc = "issue_audit"
    /\ log_audit("ISSUE")
    /\ Respond(p, req[p], "ok")
    /\ UNCHANGED <<books, issues, fines, notifications, today, quota>>

\* ------------------------------------------------ views.py: issue_return
\* the already-returned test left out
already_returned_unchecked(issue) == FALSE

\* line 288: the test that the loan was already returned
already_returned(issue) == issue.return_date # Null

\* @librarian_required, then lines 286-289: read the Issue, test return_date
issue_return_get(p, actor, issue_id) ==
    /\ Idle(p)
    /\ LET r == [NoReq EXCEPT !.op = "issue_return", !.actor = actor,
                              !.issue_id = issue_id]
       IN  IF ~librarian_required(actor) THEN Respond(p, r, "forbidden")
           ELSE IF issue_id \notin DOMAIN issues THEN Respond(p, r, "not_found")
           ELSE IF already_returned(issues[issue_id])
                THEN Respond(p, r, "already_returned")
           ELSE Goto(p, [r EXCEPT !.issue = issues[issue_id]], "return_save_issue")
    /\ UNCHANGED <<db, today>>

\* the return saved without the user who took the book back
issue_return_save_issue_anonymous(p) ==
    /\ req[p].pc = "return_save_issue"
    /\ LET r == req[p]
           issue == [r.issue EXCEPT !.return_date = <<today>>]
       IN  /\ issues' = [issues EXCEPT ![r.issue_id] = issue]
           /\ Goto(p, [r EXCEPT !.issue = issue], "return_get_book")
    /\ UNCHANGED <<books, fines, audit, notifications, today, quota>>

\* lines 291-293: set return_date and returned_to, issue.save()
issue_return_save_issue(p) ==
    /\ req[p].pc = "return_save_issue"
    /\ LET r == req[p]
           issue == [r.issue EXCEPT !.return_date = <<today>>,
                                    !.returned_to = <<r.actor>>]
       IN  /\ issues' = [issues EXCEPT ![r.issue_id] = issue]
           /\ Goto(p, [r EXCEPT !.issue = issue], "return_get_book")
    /\ UNCHANGED <<books, fines, audit, notifications, today, quota>>

\* line 296: issue.book, the related Book fetched on first access
issue_return_get_book(p) ==
    /\ req[p].pc = "return_get_book"
    /\ LET r == req[p]
       IN  Goto(p, [r EXCEPT !.book_id = r.issue.book, !.book = books[r.issue.book]],
                "return_save_book")
    /\ UNCHANGED <<db, today, quota>>

\* lines 296-297: issue.book.available_quantity += 1; issue.book.save()
issue_return_save_book(p) ==
    /\ req[p].pc = "return_save_book"
    /\ LET r == req[p]
           book == [r.book EXCEPT !.available_quantity = @ + 1]
       IN  /\ books' = [books EXCEPT ![r.book_id] = book]
           /\ Goto(p, [r EXCEPT !.book = book], "return_fine")
    /\ UNCHANGED <<issues, fines, audit, notifications, today, quota>>

\* the Fine row of line 302-306
new_fine(issue_id, amount) ==
    [issue |-> issue_id, amount |-> amount, status |-> "PENDING",
     payment_date |-> Null, payment_method |-> ""]

\* Fine.issue is a OneToOneField: a second Fine of the same Issue is refused
has_fine(issue_id) == \E f \in DOMAIN fines : fines[f].issue = issue_id

\* lines 299-309: if issue.is_overdue, Fine.objects.create
issue_return_fine(p) ==
    /\ req[p].pc = "return_fine"
    /\ LET r == req[p]
       IN  IF is_overdue(r.issue, today)
           THEN IF has_fine(r.issue_id)
                THEN /\ Respond(p, r, "server_error")   \* IntegrityError
                     /\ UNCHANGED fines
                ELSE /\ fines' = Append(fines,
                            new_fine(r.issue_id, calculate_fine(r.issue, today)))
                     /\ Goto(p, r, "return_audit")
           ELSE /\ Goto(p, r, "return_audit")
                /\ UNCHANGED fines
    /\ UNCHANGED <<books, issues, audit, notifications, today, quota>>

\* line 311: log_audit, then redirect
issue_return_audit(p) ==
    /\ req[p].pc = "return_audit"
    /\ log_audit("RETURN")
    /\ Respond(p, req[p], "ok")
    /\ UNCHANGED <<books, issues, fines, notifications, today, quota>>

\* ------------------------------------------------- views.py: issue_renew
\* hasattr(request.user.profile, 'role'): role is a field of every UserProfile
profile_has_role(user) == TRUE

\* line 321: the permission test, with Python's precedence (A and not B) or C
renew_denied(issue, user) ==
    \/ (issue.user # user /\ ~profile_has_role(user))
    \/ role(user) \notin {"ADMIN", "LIBRARIAN"}

\* the renewal limit off by one
renewal_limit_exceeded(issue) == issue.renewal_count > issue.max_renewals

\* line 325
renewal_limit_reached(issue) == issue.renewal_count >= issue.max_renewals

\* @login_required, then lines 319-326: read the Issue, the three tests
issue_renew_get(p, actor, issue_id) ==
    /\ Idle(p)
    /\ LET r == [NoReq EXCEPT !.op = "issue_renew", !.actor = actor,
                              !.issue_id = issue_id]
       IN  IF issue_id \notin DOMAIN issues THEN Respond(p, r, "not_found")
           ELSE IF renew_denied(issues[issue_id], actor)
                THEN Respond(p, r, "forbidden")
           ELSE IF already_returned(issues[issue_id])
                THEN Respond(p, r, "already_returned")
           ELSE IF renewal_limit_reached(issues[issue_id])
                THEN Respond(p, r, "limit")
           ELSE Goto(p, [r EXCEPT !.issue = issues[issue_id]], "renew_save")
    /\ UNCHANGED <<db, today>>

\* a renewal that also puts a copy back on the shelf
issue_renew_save_restocking(p) ==
    /\ req[p].pc = "renew_save"
    /\ LET r == req[p]
           issue == [r.issue EXCEPT !.due_date = @ + RENEWAL_DAYS,
                                    !.renewal_count = @ + 1]
       IN  /\ issues' = [issues EXCEPT ![r.issue_id] = issue]
           /\ books' = [books EXCEPT ![issue.book].available_quantity = @ + 1]
           /\ Goto(p, [r EXCEPT !.issue = issue], "renew_audit")
    /\ UNCHANGED <<fines, audit, notifications, today, quota>>

\* lines 328-330: due_date += 7 days; renewal_count += 1; issue.save()
issue_renew_save(p) ==
    /\ req[p].pc = "renew_save"
    /\ LET r == req[p]
           issue == [r.issue EXCEPT !.due_date = @ + RENEWAL_DAYS,
                                    !.renewal_count = @ + 1]
       IN  /\ issues' = [issues EXCEPT ![r.issue_id] = issue]
           /\ Goto(p, [r EXCEPT !.issue = issue], "renew_audit")
    /\ UNCHANGED <<books, fines, audit, notifications, today, quota>>

\* lines 332-333: success message, log_audit
issue_renew_audit(p) ==
    /\ req[p].pc = "renew_audit"
    /\ log_audit("RENEW")
    /\ Respond(p, req[p], "ok")
    /\ UNCHANGED <<books, issues, fines, notifications, today, quota>>

\* ---------------------------------------------------- views.py: fine_pay
\* the payment method not recorded
paid_fine_without_method(fine, payment_method, now) ==
    [fine EXCEPT !.status = "PAID", !.payment_date = <<now>>]

\* lines 361-363: the Fine instance after the three assignments
paid_fine(fine, payment_method, now) ==
    [fine EXCEPT !.status = "PAID", !.payment_date = <<now>>,
                 !.payment_method = payment_method]

\* line 359: request.POST.get('payment_method', 'CASH')
post_payment_method(post) == IF post = Null THEN "CASH" ELSE post[1]

\* @librarian_required, then lines 356-359: read the Fine, POST data
fine_pay_get(p, actor, fine_id, post) ==
    /\ Idle(p)
    /\ LET r == [NoReq EXCEPT !.op = "fine_pay", !.actor = actor,
                              !.fine_id = fine_id,
                              !.payment_method = post_payment_method(post)]
       IN  IF ~librarian_required(actor) THEN Respond(p, r, "forbidden")
           ELSE IF fine_id \notin DOMAIN fines THEN Respond(p, r, "not_found")
           ELSE /\ audit["PAYMENT"] < MaxPayments
                /\ Goto(p, [r EXCEPT !.fine = fines[fine_id]], "pay_save")
    /\ UNCHANGED <<db, today>>

\* lines 361-364: status, payment_date, payment_method; fine.save()
fine_pay_save(p) ==
    /\ req[p].pc = "pay_save"
    /\ LET r == req[p]
           fine == paid_fine(r.fine, r.payment_method, today)
       IN  /\ fines' = [fines EXCEPT ![r.fine_id] = fine]
           /\ Goto(p, [r EXCEPT !.fine = fine], "pay_audit")
    /\ UNCHANGED <<books, issues, audit, notifications, today, quota>>

\* lines 366-368: success message, log_audit, redirect
fine_pay_audit(p) ==
    /\ req[p].pc = "pay_audit"
    /\ log_audit("PAYMENT")
    /\ Respond(p, req[p], "ok")
    /\ UNCHANGED <<books, issues, fines, notifications, today, quota>>

\* ------------------------------------------------------ admin.py: FineAdmin
\* the admin site's add form of the registered Fine model: a Fine row of any
\* status for an Issue that has none (this is where WAIVED fines come from;
\* no view waives)
FineAdmin_add(issue_id, amount, status) ==
    /\ \A p \in Procs : Idle(p)
    /\ issue_id \in DOMAIN issues
    /\ ~has_fine(issue_id)
    /\ fines' = Append(fines, [new_fine(issue_id, amount) EXCEPT !.status = status])
    /\ UNCHANGED <<books, issues, audit, notifications, today, quota, req>>

\* ------------------------------------------------------------ environment
\* the request dies between two statements (an exception of the next
\* statement, the worker killed): nothing is rolled back, no view opens a
\* transaction
abort(p) ==
    /\ req[p].pc \notin {"idle", "respond"}
    /\ Respond(p, req[p], "server_error")
    /\ UNCHANGED <<db, today, quota>>

\* the response has been sent: the worker is free again
finish(p) ==
    /\ req[p].pc = "respond"
    /\ req' = [req EXCEPT ![p] = NoReq]
    /\ UNCHANGED <<db, today, quota>>

\* midnight: date.today() and timezone.now().date() move on
Tick ==
    /\ today < MaxDay
    /\ today' = today + 1
    /\ UNCHANGED <<db, req, quota>>

\* ---------------------------------------------------------- specification
\* the catalogue as book_add leaves it: available_quantity = total_quantity
Init ==
    /\ books = [b \in Books |-> [total_quantity |-> total_quantity(b),
                                 available_quantity |-> total_quantity(b)]]
    /\ issues = <<>>
    /\ fines = <<>>
    /\ audit = [a \in AuditActions |-> 0]
    /\ notifications = 0
    /\ today = 0
    /\ req = [p \in Procs |-> NoReq]
    /\ quota = MaxRequests

IssueIds == 1..MaxIssues

Start(p) ==
    \/ \E actor \in Users, book_id \in Books, user_id \in Borrowers,
          days \in DaysChoices : issue_create_get(p, actor, book_id, user_id, days)
    \/ \E actor \in Users, issue_id \in IssueIds : issue_return_get(p, actor, issue_id)
    \/ \E actor \in Users, issue_id \in IssueIds : issue_renew_get(p, actor, issue_id)

Step(p) ==
    \/ issue_create_insert(p)
    \/ issue_create_save_book(p)
    \/ issue_create_notify(p)
    \/ issue_create_audit(p)
    \/ issue_return_save_issue(p)
    \/ issue_return_get_book(p)
    \/ issue_return_save_book(p)
    \/ issue_return_fine(p)
    \/ issue_return_audit(p)
    \/ issue_renew_save(p)
    \/ issue_renew_audit(p)
    \/ finish(p)

\* one worker: the requests are served one at a time
Next ==
    \/ \E p \in {"w1"} : (Start(p) /\ UNCHANGED quota) \/ Step(p)
    \/ Tick

Spec == Init /\ [][Next]_vars

\* a workload of MaxRequests requests that the workers serve in parallel,
\* interleaved statement by statement
NextConc ==
    \/ \E p \in Procs : \/ (quota > 0 /\ Start(p) /\ quota' = quota - 1)
                         \/ Step(p)
    \/ Tick

SpecConc == Init /\ [][NextConc]_vars

\* the fines desk: one worker issuing to one borrower for the shortest
\* period, returning, and taking payments; the admin site adds Fine rows
FineAmounts == {FINE_PER_DAY, 5 * FINE_PER_DAY}

StartFines(p) ==
    \/ \E book_id \in Books : issue_create_get(p, "lib", book_id, "alice", 0)
    \/ \E issue_id \in IssueIds : issue_return_get(p, "lib", issue_id)
    \/ \E actor \in Users, fine_id \in IssueIds, post \in PaymentPosts :
          fine_pay_get(p, actor, fine_id, post)

StepFines(p) ==
    \/ issue_create_insert(p)
    \/ issue_create_save_book(p)
    \/ issue_create_notify(p)
    \/ issue_create_audit(p)
    \/ issue_return_save_issue(p)
    \/ issue_return_get_book(p)
    \/ issue_return_save_book(p)
    \/ issue_return_fine(p)
    \/ issue_return_audit(p)
    \/ finish(p)
    \/ fine_pay_save(p)
    \/ fine_pay_audit(p)

NextFines ==
    \/ \E p \in {"w1"} : (StartFines(p) /\ UNCHANGED quota) \/ StepFines(p)
    \/ \E issue_id \in IssueIds, amount \in FineAmounts, status \in FineStatuses :
          FineAdmin_add(issue_id, amount, status)
    \/ Tick

SpecFines == Init /\ [][NextFines]_vars

\* one worker, a librarian serving one borrower, whose requests may die
\* between two statements
StartCrash(p) ==
    \/ \E book_id \in Books : issue_create_get(p, "lib", book_id, "alice", 0)
    \/ \E issue_id \in IssueIds : issue_return_get(p, "lib", issue_id)
    \/ \E issue_id \in IssueIds : issue_renew_get(p, "lib", issue_id)

NextCrash ==
    \/ \E p \in {"w1"} : \/ (StartCrash(p) /\ UNCHANGED quota)
                          \/ Step(p)
                          \/ abort(p)
    \/ Tick

SpecCrash == Init /\ [][NextCrash]_vars

\* the catalogue desk: one worker adding books, and a librarian lending and
\* taking back what the catalogue holds
StartBooks(p) ==
    \/ \E actor \in {"lib", "alice"}, book_id \in NewBooks, post \in QuantityPosts :
          book_add_create(p, actor, book_id, post)
    \/ \E book_id \in DOMAIN books : issue_create_get(p, "lib", book_id, "alice", 0)
    \/ \E issue_id \in IssueIds : issue_return_get(p, "lib", issue_id)

StepBooks(p) ==
    \/ book_add_audit(p)
    \/ issue_create_insert(p)
    \/ issue_create_save_book(p)
    \/ issue_create_notify(p)
    \/ issue_create_audit(p)
    \/ issue_return_save_issue(p)
    \/ issue_return_get_book(p)
    \/ issue_return_save_book(p)
    \/ issue_return_fine(p)
    \/ issue_return_audit(p)
    \/ finish(p)

NextBooks ==
    \/ \E p \in {"w1"} : (StartBooks(p) /\ UNCHANGED quota) \/ StepBooks(p)
    \/ Tick

SpecBooks == Init /\ [][NextBooks]_vars

\* =================================================================== claims
InFlight(p) == req[p].pc \notin {"idle", "respond"}
Quiet       == \A p \in Procs : ~InFlight(p)
Responded(p, op, result) ==
    req[p].pc = "respond" /\ req[p].op = op /\ req[p].result = result

\* C1: in every reachable state every book has
\* 0 <= available_quantity <= total_quantity.
C1_CopiesInRange ==
    \A b \in Books : /\ books[b].available_quantity >= 0
                     /\ books[b].available_quantity <= books[b].total_quantity

\* C2: two issue requests for the same book never both get past the
\* availability test having seen its last copy (exactly one of them succeeds).
C2_LastCopyIssuedOnce ==
    \A p, q \in Procs :
        (/\ p # q
         /\ req[p].pc \in {"issue_insert", "issue_save_book"}
         /\ req[q].pc \in {"issue_insert", "issue_save_book"}
         /\ req[p].book_id = req[q].book_id)
        => ~(req[p].book.available_quantity = 1 /\ req[q].book.available_quantity = 1)

\* C3: when a return has saved a return_date later than the due_date, the
\* view has created the PENDING Fine of (return_date - due_date) * 10 by the
\* time it writes its audit row.
C3_LateReturnCreatesFine ==
    \A p \in Procs :
        (/\ req[p].pc = "return_audit"
         /\ req[p].issue.return_date[1] > req[p].issue.due_date)
        => \E f \in DOMAIN fines :
              /\ fines[f].issue = req[p].issue_id
              /\ fines[f].status = "PENDING"
              /\ fines[f].amount =
                    (req[p].issue.return_date[1] - req[p].issue.due_date) * FINE_PER_DAY

\* C4: a loan has at most one Fine, and a Fine belongs only to a loan that was
\* returned with return_date > due_date.
C4_FineOnlyForLateReturn ==
    /\ \A f, g \in DOMAIN fines : fines[f].issue = fines[g].issue => f = g
    /\ \A f \in DOMAIN fines :
          /\ fines[f].issue \in DOMAIN issues
          /\ issues[fines[f].issue].return_date # Null
          /\ issues[fines[f].issue].return_date[1] > issues[fines[f].issue].due_date

\* a loan returned on or before its due date, its return request finished,
\* and no Fine
C4_Witness ==
    /\ Quiet
    /\ \E i \in DOMAIN issues :
          /\ issues[i].return_date # Null
          /\ issues[i].return_date[1] <= issues[i].due_date
          /\ ~has_fine(i)

\* C5: an issue request by staff for a book with available_quantity = 0 is
\* answered 'Book is not available!', never reaches the statements that
\* create the Issue and write the Book, and changes no row.
C5_NoCopyNoIssue ==
    [][\A p \in Procs, actor \in Users, b \in Books, u \in Borrowers, d \in DaysChoices :
          (/\ issue_create_get(p, actor, b, u, d)
           /\ librarian_required(actor)
           /\ books[b].available_quantity = 0)
          => /\ req'[p].pc = "respond"
             /\ req'[p].result = "unavailable"
             /\ issues' = issues
             /\ books' = books]_vars

C5_Witness ==
    \E p \in Procs :
        /\ Responded(p, "issue_create", "unavailable")
        /\ \E b \in Books : books[b].available_quantity = 0

\* C6: no borrower ever holds two active loans of the same book.
C6_NoDuplicateActiveLoan ==
    \A i, j \in DOMAIN issues :
        (/\ i # j
         /\ issues[i].book = issues[j].book
         /\ issues[i].user = issues[j].user
         /\ issues[i].return_date = Null)
        => issues[j].return_date # Null

\* C7: renewal_count never exceeds max_renewals; a permitted renew of an active
\* loan below the limit goes on to add 1 to renewal_count and 7 days to
\* due_date; at the limit it is answered 'Maximum renewals reached' and
\* changes no row.
C7_RenewalLimit ==
    [][/\ \A i \in DOMAIN issues' :
             issues'[i].renewal_count <= issues'[i].max_renewals
       /\ \A p \in Procs, actor \in Users, i \in DOMAIN issues :
             (/\ issue_renew_get(p, actor, i)
              /\ ~renew_denied(issues[i], actor)
              /\ issues[i].return_date = Null)
             => IF issues[i].renewal_count < issues[i].max_renewals
                THEN req'[p].pc = "renew_save"
                ELSE /\ req'[p].pc = "respond"
                     /\ req'[p].result = "limit"
                     /\ issues' = issues
       /\ \A p \in Procs :
             issue_renew_save(p)
             => LET i == req[p].issue_id
                IN  /\ issues'[i].renewal_count = issues[i].renewal_count + 1
                    /\ issues'[i].due_date = issues[i].due_date + RENEWAL_DAYS]_vars

\* a loan renewed max_renewals times and one more renew refused
C7_Witness ==
    \E p \in Procs :
        /\ Responded(p, "issue_renew", "limit")
        /\ \E i \in DOMAIN issues :
              /\ issues[i].renewal_count = MAX_RENEWALS
              /\ issues[i].due_date =
                    issues[i].issue_date + MAX_RENEWALS * RENEWAL_DAYS

\* C8: a return request for a loan whose return_date is set is answered (for
\* staff: 'Book already returned!') without reaching the statements that save
\* the Issue, increment the Book or create a Fine; no row changes.
C8_ReturnOfReturnedLoan ==
    [][\A p \in Procs, actor \in Users, i \in DOMAIN issues :
          (/\ issue_return_get(p, actor, i)
           /\ issues[i].return_date # Null)
          => /\ req'[p].pc = "respond"
             /\ librarian_required(actor) => req'[p].result = "already_returned"
             /\ issues' = issues
             /\ books' = books
             /\ fines' = fines]_vars

C8_Witness ==
    \E p \in Procs :
        /\ Responded(p, "issue_return", "already_returned")
        /\ \E i \in DOMAIN issues : issues[i].return_date # Null

\* C9: when two return requests for the same loan have both written the
\* Book, its count stands one higher than before the first of them, not two.
C9_ReturnIncrementsOnce ==
    \A p, q \in Procs :
        (/\ p # q
         /\ req[p].pc \in {"return_fine", "return_audit"}
         /\ req[q].pc \in {"return_fine", "return_audit"}
         /\ req[p].issue_id = req[q].issue_id)
        => (/\ books[req[p].book_id].available_quantity <= req[p].book.available_quantity
            /\ books[req[p].book_id].available_quantity <= req[q].book.available_quantity)

\* C10: once a loan's return_date is set, its return_date, due_date and
\* renewal_count never change again.
C10_ReturnedIsTerminal ==
    [][\A i \in DOMAIN issues :
          issues[i].return_date # Null
          => /\ issues'[i].return_date = issues[i].return_date
             /\ issues'[i].due_date = issues[i].due_date
             /\ issues'[i].renewal_count = issues[i].renewal_count]_vars

\* C11: a pay request for a fine whose status is not PENDING is refused: it
\* is answered without reaching the statements that write the Fine, and the
\* Fine row (status, payment_date, payment_method) stays as it was.
C11_PayNonPendingRefused ==
    [][/\ \A p \in Procs, actor \in Users, f \in DOMAIN fines,
             post \in PaymentPosts :
             (/\ fine_pay_get(p, actor, f, post)
              /\ fines[f].status # "PENDING")
             => /\ req'[p].pc = "respond"
                /\ req'[p].result # "ok"
       /\ \A p \in Procs :
             (/\ fine_pay_save(p)
              /\ fines[req[p].fine_id].status # "PENDING")
             => fines' = fines]_vars

\* C12: PAID and WAIVED are terminal: no step changes the status of a fine
\* that is PAID or WAIVED.
C12_SettledIsTerminal ==
    [][\A f \in DOMAIN fines :
          fines[f].status \in {"PAID", "WAIVED"}
          => fines'[f].status = fines[f].status]_vars

\* C13: the write of a pay request on a PENDING fine sets status PAID,
\* payment_date to the current date and payment_method to the posted method
\* (CASH when none is posted), and leaves the fine's amount, its loan, every
\* other fine and every loan as they were.
C13_PayPendingFine ==
    [][/\ \A p \in Procs, actor \in Users, f \in DOMAIN fines,
             post \in PaymentPosts :
             (/\ fine_pay_get(p, actor, f, post)
              /\ librarian_required(actor)
              /\ fines[f].status = "PENDING")
             => /\ req'[p].pc = "pay_save"
                /\ req'[p].payment_method =
                      (IF post = Null THEN "CASH" ELSE post[1])
       /\ \A p \in Procs :
             (/\ fine_pay_save(p)
              /\ fines[req[p].fine_id].status = "PENDING")
             => LET f == req[p].fine_id
                IN  /\ fines'[f].status = "PAID"
                    /\ fines'[f].payment_date = <<today>>
                    /\ fines'[f].payment_method = req[p].payment_method
                    /\ fines'[f].amount = fines[f].amount
                    /\ fines'[f].issue = fines[f].issue
                    /\ \A g \in DOMAIN fines : g # f => fines'[g] = fines[g]
                    /\ issues' = issues]_vars

\* a PENDING fine paid by card and one paid with no method posted
C13_Witness ==
    /\ \E p \in Procs : Responded(p, "fine_pay", "ok")
    /\ \E f, g \in DOMAIN fines :
          /\ fines[f].status = "PAID" /\ fines[f].payment_method = "CARD"
          /\ fines[f].payment_date # Null
          /\ fines[g].status = "PAID" /\ fines[g].payment_method = "CASH"
          /\ fines[g].payment_date # Null

\* C14: a loan returned on the day it was issued, whatever its non-negative
\* period, has days_overdue 0 and no Fine.
C14_SameDayReturnNoFine ==
    \A i \in DOMAIN issues :
        (/\ issues[i].return_date = <<issues[i].issue_date>>
         /\ issues[i].due_date >= issues[i].issue_date)
        => /\ days_overdue(issues[i], today) = 0
           /\ ~has_fine(i)

\* a same-day return completed for a loan of period 0, the clock since moved
\* past its due date
C14_Witness ==
    /\ \E p \in Procs : Responded(p, "issue_return", "ok")
    /\ \E i \in DOMAIN issues :
          /\ issues[i].return_date = <<issues[i].issue_date>>
          /\ issues[i].due_date = issues[i].issue_date
          /\ today > issues[i].due_date

\* the amount of the Fine of a loan, 0 when it has none
fine_amount(i) ==
    IF has_fine(i)
    THEN fines[CHOOSE f \in DOMAIN fines : fines[f].issue = i].amount
    ELSE 0

\* C15: two completed returns of loans with the same due_date and the same
\* return_date have the same outcome (a Fine for both or for neither, of the
\* same amount), whatever the clock showed while each was processed.
C15_ReturnOutcomeClockFree ==
    Quiet =>
        \A i, j \in DOMAIN issues :
            (/\ issues[i].return_date # Null
             /\ issues[i].return_date = issues[j].return_date
             /\ issues[i].due_date = issues[j].due_date)
            => /\ has_fine(i) <=> has_fine(j)
               /\ fine_amount(i) = fine_amount(j)

\* two loans of one due date both returned on one later day, the clock read
\* on that day
C15_Witness ==
    /\ Quiet
    /\ \E i, j \in DOMAIN issues :
          /\ i # j
          /\ issues[i].return_date # Null
          /\ issues[i].return_date = issues[j].return_date
          /\ issues[i].due_date = issues[j].due_date
          /\ issues[i].return_date[1] > issues[i].due_date
          /\ today = issues[i].return_date[1]

\* the loans of a book that are not returned
active_loans(b) ==
    {i \in DOMAIN issues : issues[i].book = b /\ issues[i].return_date = Null}

\* C16: a request that died between two of its writes leaves no partial
\* change: every Issue row without return_date still holds one copy of its
\* book (a row inserted without the decrement, or a return_date saved without
\* the increment, breaks this).
C16_AllOrNothing ==
    (\E p \in Procs : req[p].pc = "respond" /\ req[p].result = "server_error")
    => \A b \in Books :
          books[b].available_quantity + Cardinality(active_loans(b))
              = books[b].total_quantity

\* C17: a successful issue inserts exactly one Issue row, with no
\* return_date, renewal_count 0 and due_date = issue_date + days, and takes
\* exactly 1 from the available_quantity of that book only.
C17_IssueEffect ==
    [][\A p \in Procs :
          /\ issue_create_insert(p)
             => /\ Len(issues') = Len(issues) + 1
                /\ \A i \in DOMAIN issues : issues'[i] = issues[i]
                /\ LET n == issues'[Len(issues')]
                   IN  /\ n.book = req[p].book_id
                       /\ n.user = req[p].user_id
                       /\ n.return_date = Null
                       /\ n.renewal_count = 0
                       /\ n.issue_date = today
                       /\ n.due_date = n.issue_date + req[p].days
                /\ books' = books
          /\ issue_create_save_book(p)
             => /\ issues' = issues
                /\ books'[req[p].book_id].available_quantity
                      = books[req[p].book_id].available_quantity - 1
                /\ \A b \in Books \ {req[p].book_id} : books'[b] = books[b]
          /\ (issue_create_notify(p) \/ issue_create_audit(p))
             => (issues' = issues /\ books' = books)]_vars

\* an issue for the shortest period and one for the default period completed
C17_Witness ==
    /\ \E p \in Procs : Responded(p, "issue_create", "ok")
    /\ \E i, j \in DOMAIN issues :
          /\ issues[i].due_date = issues[i].issue_date
          /\ issues[j].due_date = issues[j].issue_date + DEFAULT_ISSUE_DAYS
          /\ issues[i].return_date = Null /\ issues[j].return_date = Null
    /\ \E b \in Books : books[b].available_quantity < books[b].total_quantity

\* C18: the write of a renew of a loan without return_date and below the
\* limit adds 7 days to due_date and 1 to renewal_count, leaves return_date
\* unset and every other loan alone; no step of a renew changes a Book.
C18_RenewEffect ==
    [][/\ \A p \in Procs :
             (/\ issue_renew_save(p)
              /\ issues[req[p].issue_id].return_date = Null
              /\ issues[req[p].issue_id].renewal_count
                     < issues[req[p].issue_id].max_renewals)
             => LET i == req[p].issue_id
                IN  /\ issues'[i] =
                          [issues[i] EXCEPT !.due_date = @ + RENEWAL_DAYS,
                                            !.renewal_count = @ + 1]
                    /\ issues'[i].return_date = Null
                    /\ \A j \in DOMAIN issues : j # i => issues'[j] = issues[j]
       /\ \A p \in Procs :
             (\/ \E actor \in Users, i \in IssueIds : issue_renew_get(p, actor, i)
              \/ issue_renew_save(p)
              \/ issue_renew_audit(p))
             => books' = books]_vars

\* a renewal completed: the loan still out, one renewal counted, the copy
\* still taken
C18_Witness ==
    /\ \E p \in Procs : Responded(p, "issue_renew", "ok")
    /\ \E i \in DOMAIN issues :
          /\ issues[i].renewal_count = 1
          /\ issues[i].due_date = issues[i].issue_date + RENEWAL_DAYS
          /\ issues[i].return_date = Null
          /\ books[issues[i].book].available_quantity
                 < books[issues[i].book].total_quantity

\* C19: a return of a loan without return_date sets return_date to the
\* current date and returned_to to the acting user, changing nothing else of
\* the loan, and adds exactly 1 to the available_quantity of the loan's book,
\* every other Book unchanged.
C19_ReturnEffect ==
    [][\A p \in Procs :
          /\ (issue_return_save_issue(p)
              /\ issues[req[p].issue_id].return_date = Null)
             => LET i == req[p].issue_id
                IN  /\ issues'[i] =
                          [issues[i] EXCEPT !.return_date = <<today>>,
                                            !.returned_to = <<req[p].actor>>]
                    /\ \A j \in DOMAIN issues : j # i => issues'[j] = issues[j]
                    /\ books' = books
          /\ issue_return_save_book(p)
             => LET b == issues[req[p].issue_id].book
                IN  /\ books'[b].available_quantity
                          = books[b].available_quantity + 1
                    /\ books'[b].total_quantity = books[b].total_quantity
                    /\ \A c \in Books \ {b} : books'[c] = books[c]
          /\ (issue_return_get_book(p) \/ issue_return_fine(p)
                 \/ issue_return_audit(p))
             => books' = books]_vars

\* a return completed while another book has a copy out: the loan carries
\* the date and the librarian, its book is whole again
C19_Witness ==
    /\ \E p \in Procs : Responded(p, "issue_return", "ok")
    /\ \E i, j \in DOMAIN issues :
          /\ issues[i].return_date = <<today>>
          /\ issues[i].returned_to = <<"lib">>
          /\ books[issues[i].book].available_quantity
                 = books[issues[i].book].total_quantity
          /\ issues[j].book # issues[i].book
          /\ issues[j].return_date = Null
          /\ books[issues[j].book].available_quantity
                 < books[issues[j].book].total_quantity

\* C20: a renew requested by the loan's own borrower, or by a user of role
\* ADMIN or LIBRARIAN, is not refused for lack of permission; one requested
\* by anyone else is refused and changes no loan.
C20_OwnerOrStaffMayRenew ==
    [][\A p \in Procs, actor \in Users, i \in DOMAIN issues :
          issue_renew_get(p, actor, i)
          => IF \/ issues[i].user = actor
                \/ role(actor) \in {"ADMIN", "LIBRARIAN"}
             THEN req'[p].result # "forbidden"
             ELSE /\ req'[p].result = "forbidden"
                  /\ issues' = issues]_vars

\* C22: for every loan and the current date, is_overdue is true exactly when
\* the date is after due_date and days_overdue is max(0, date - due_date),
\* whatever else the loan row holds (its return_date in particular).
C22_OverduePure ==
    \A i \in DOMAIN issues :
        /\ is_overdue(issues[i], today) <=> (today > issues[i].due_date)
        /\ days_overdue(issues[i], today)
              = (IF today > issues[i].due_date
                 THEN today - issues[i].due_date ELSE 0)

\* C23: between requests served one at a time, every book has
\* available_quantity + (number of its loans without return_date)
\* = total_quantity.
C23_CopiesConserved ==
    Quiet => \A b \in Books :
                books[b].total_quantity - books[b].available_quantity
                    = Cardinality(active_loans(b))

\* between requests: one book with a copy out and a copy back, the other
\* with its only copy out or never lent
C23_Witness ==
    /\ Quiet
    /\ \E i, j \in DOMAIN issues :
          /\ issues[i].book = issues[j].book
          /\ issues[i].return_date = Null
          /\ issues[j].return_date # Null
          /\ \E p \in Procs : Responded(p, "issue_return", "ok")

\* C24: when an issue and a return of another loan of the same book are in
\* progress together and both have saved the Book, neither count update is
\* lost: the count the return wrote is one more than the count the issue
\* wrote (each read the Book before the other's write or after it, never
\* both before), and the Book row holds one of the two.
C24_IssueReturnNoLostUpdate ==
    \A p, q \in Procs :
        (/\ req[p].pc \in {"issue_notify", "issue_audit"}
         /\ req[q].pc \in {"return_fine", "return_audit"}
         /\ req[p].book_id = req[q].book_id
         /\ req[p].issue_id # req[q].issue_id)
        => /\ req[q].book.available_quantity
                 = req[p].book.available_quantity + 1
           /\ books[req[p].book_id].available_quantity
                 \in {req[p].book.available_quantity,
                      req[q].book.available_quantity}

\* the loan period a due date was computed from, were it one of the periods
\* an issue can be given
due_date_explained(issue) ==
    \E days \in DaysChoices :
        issue.due_date
            = issue.issue_date + days + RENEWAL_DAYS * issue.renewal_count

\* C25: every loan has due_date = issue_date + days + 7 * renewal_count; no
\* step lowers a loan's due_date, and only the write of a renew changes it.
C25_DueDateFormula ==
    [][/\ \A i \in DOMAIN issues' : due_date_explained(issues'[i])
       /\ \A i \in DOMAIN issues :
             /\ issues'[i].due_date >= issues[i].due_date
             /\ issues'[i].due_date # issues[i].due_date
                => \E p \in Procs : issue_renew_save(p)]_vars

\* the renewals recorded on the first n loans
RECURSIVE renewals_upto(_)
renewals_upto(n) ==
    IF n = 0 THEN 0 ELSE issues[n].renewal_count + renewals_upto(n - 1)

returned_loans == {i \in DOMAIN issues : issues[i].return_date # Null}
paid_fines     == {f \in DOMAIN fines : fines[f].status = "PAID"}

\* C21: with requests served one at a time, the audit log never runs ahead
\* of the rows it describes (an ISSUE record only after the Issue row, a
\* RETURN record only after return_date is saved, a RENEW record only after
\* the renewal is saved, a PAYMENT record only after a fine has become PAID,
\* one record per operation, none for a request that is refused), and
\* between requests every issue, return and renewal has its record.
C21_AuditOncePerSuccess ==
    /\ audit["ISSUE"] <= Len(issues)
    /\ audit["RETURN"] <= Cardinality(returned_loans)
    /\ audit["RENEW"] <= renewals_upto(Len(issues))
    /\ audit["PAYMENT"] <= Cardinality(paid_fines)
    /\ Quiet => /\ audit["ISSUE"] = Len(issues)
                /\ audit["RETURN"] = Cardinality(returned_loans)
                /\ audit["RENEW"] = renewals_upto(Len(issues))

\* C26: every Book row has total_quantity >= 1, and every quantity below 1
\* that book_add is given is one BookForm.clean_total_quantity rejects.
C26_TotalQuantityAtLeastOne ==
    /\ \A b \in DOMAIN books : books[b].total_quantity >= 1
    /\ \A p \in Procs :
          (req[p].pc = "book_audit" /\ req[p].total_quantity < 1)
          => ~clean_total_quantity(<<req[p].total_quantity>>).valid

====
